---- MODULE Spec2Model ----
(***************************************************************************)
(* The web handlers of gitingest's server (server/auth.py,                 *)
(* server/routers/index.py, server/routers/dynamic.py) as a state machine. *)
(*                                                                         *)
(* Every request runs in its own coroutine.  A request is received, its    *)
(* get_api_key dependency is resolved, and then the handler body runs from *)
(* one await to the next; each such stretch is one action.  The functions  *)
(* of server.query_processor (parse_query, clone_repo, ingest_query,       *)
(* process_query) are collaborators of the handlers: they are modelled by  *)
(* the set of outcomes (a returned value or a raised exception) each call  *)
(* can have.                                                               *)
(*                                                                         *)
(* Texts that the handlers search or build (exception messages, the        *)
(* pattern_type that is formatted into one) are sequences of tokens, so    *)
(* that the test `"405" in error_message` is a real sub-sequence search.   *)
(* A token longer than one character stands for text without the digits    *)
(* 4, 0, 5 in a row.                                                       *)
(*                                                                         *)
(* Not modelled: the form field max_file_size (it is only converted and    *)
(* passed on), and the @limiter.limit decorator, so every request here is  *)
(* one the rate limiter admits and whose form binds.                       *)
(***************************************************************************)
EXTENDS Integers, Sequences, FiniteSets, TLC

\* Number of requests in flight at once (one per client slot).
NumClients == 2

Clients == 1..NumClients

\* Python's None, and the truth test `not x` on a value that is a str or None.
None == "None"

Falsy(x) == x \in {None, ""}

NonEmpty(x) == ~Falsy(x)

-----------------------------------------------------------------------------
\* Values the environment supplies.

\* os.getenv("API_KEY"): unset, set to the empty string, or set to a key.
KeyValues == {None, "", "secret"}

\* APIKeyHeader(auto_error=False): None when the header is absent.
HeaderValues == {None, "secret", "wrong"}

Urls == {"https://github.com/o/r1", "https://github.com/o/r2"}

Sources == Urls \cup {"/local/dir"}

PatternTypes == {<<"include">>, <<"exclude">>, <<"regex">>, <<"4", "0", "5">>}

Patterns == {"*.md", ""}

ResponseTypes == {"html", "json"}

Request(h, t, k, text, pt, p, u, readme, path) ==
    [handler |-> h, response_type |-> t, header |-> k, input_text |-> text,
     pattern_type |-> pt, pattern |-> p, url |-> u, include_readme |-> readme,
     full_path |-> path]

NoRequest == Request("none", None, None, None, <<>>, None, None, FALSE, None)

IndexPostRequests ==
    {Request("index_post", t, k, s, pt, p, None, FALSE, None) :
        t \in ResponseTypes, k \in HeaderValues, s \in Sources,
        pt \in PatternTypes, p \in Patterns}

StatsRequests ==
    {Request("get_repository_stats", None, k, None, <<>>, None, u, b, None) :
        k \in HeaderValues, u \in Sources, b \in BOOLEAN}

CatchAllRequests ==
    {Request("catch_all", t, k, None, <<>>, None, None, FALSE, path) :
        t \in ResponseTypes, k \in HeaderValues, path \in {"o/r1", "o/r2"}}

ProcessCatchAllRequests ==
    {Request("process_catch_all", t, k, s, <<"include">>, "*.md", None, FALSE, None) :
        t \in ResponseTypes, k \in HeaderValues, s \in Sources}

AllRequests ==
    IndexPostRequests \cup StatsRequests \cup CatchAllRequests
        \cup ProcessCatchAllRequests

\* The requests of the concurrent specification: authenticated pipeline runs.
PipelineRequests ==
    {Request("index_post", "json", "secret", s, <<"include">>, "*.md", None, FALSE, None) :
        s \in Urls}
    \cup {Request("get_repository_stats", None, "secret", None, <<>>, None, u, TRUE, None) :
        u \in Urls}

-----------------------------------------------------------------------------
VARIABLES
    API_KEY,        \* auth.API_KEY, read once from the environment
    pc,             \* pc[c]: where client c's request stands
    req,            \* req[c]: the request's bound parameters
    api_key,        \* api_key[c]: what the get_api_key dependency returned
    parse_args,     \* parse_args[c]: the arguments of c's parse_query call
    frame,          \* frame[f]: the handler locals parsed_query, clone_config
    own_query,      \* own_query[c]: the query c's parse_query call returned
    trace,          \* trace[c]: the collaborator calls of c and how they ended
    raised,         \* raised[c]: the exception c's except clause caught
    result,         \* result[c]: what process_query returned to c
    response,       \* response[c]: the response sent
    nextId,         \* the next fresh query id
    workspace       \* workspace[id]: the repository cloned for query id

vars == <<API_KEY, pc, req, api_key, parse_args, frame, own_query,
          trace, raised, result, response, nextId, workspace>>

-----------------------------------------------------------------------------
\* Exceptions, queries, responses.

Exc(kind, msg) == [kind |-> kind, msg |-> msg]

NoExc == Exc("none", <<>>)

NoRaise == [stage |-> "none", exc |-> NoExc]

Query(url, id, inc, ign) ==
    [url |-> url, id |-> id, include_patterns |-> inc, ignore_patterns |-> ign]

NoQuery == Query(None, 0, None, None)

NoArgs == [source |-> None, include_patterns |-> None, ignore_patterns |-> None]

NoDigest == [summary |-> <<>>, tree |-> <<>>, content |-> <<>>]

\* A response body: `keys` are the keys present, the rest their values.
EmptyBody ==
    [keys |-> {}, status |-> None, error |-> <<>>, input_text |-> None,
     pattern_type |-> <<>>, pattern |-> None, repository |-> None,
     summary |-> <<>>, tree |-> <<>>, content |-> <<>>,
     readme_content |-> <<>>, ingest_id |-> 0, repo_url |-> None]

Response(kind, status, page, body) ==
    [kind |-> kind, status |-> status, page |-> page, body |-> body]

NoResponse == Response("none", 0, None, EmptyBody)

REPO_NOT_FOUND ==
    <<"Repository not found. Please make sure it is public (private repositories will be supported soon)">>

\* `"405" in error_message`
Contains405(msg) ==
    \E i \in 1..(Len(msg) - 2) :
        msg[i] = "4" /\ msg[i + 1] = "0" /\ msg[i + 2] = "5"


CloneConfig(url, local_path) == [url |-> url, local_path |-> local_path]

NoFrame == [parsed_query |-> NoQuery, clone_config |-> CloneConfig(None, 0)]

Outcome(ok, q, digest, exc) == [ok |-> ok, q |-> q, digest |-> digest, exc |-> exc]

Raises(exc) == Outcome(FALSE, NoQuery, NoDigest, exc)

-----------------------------------------------------------------------------
\* server/auth.py

\* get_api_key with the header handed back when no key is configured.
get_api_key_open(api_key_header) ==
    IF Falsy(API_KEY)
    THEN [raised |-> FALSE, value |-> api_key_header]
    ELSE IF api_key_header = API_KEY
         THEN [raised |-> FALSE, value |-> api_key_header]
         ELSE [raised |-> TRUE, value |-> None]

\* get_api_key without its raise: a header that differs is handed back.
get_api_key_lax(api_key_header) ==
    IF Falsy(API_KEY)
    THEN [raised |-> FALSE, value |-> None]
    ELSE [raised |-> FALSE, value |-> api_key_header]

\* get_api_key: the value returned, or the HTTPException(403) raised.
get_api_key(api_key_header) ==
    IF Falsy(API_KEY)
    THEN [raised |-> FALSE, value |-> None]
    ELSE IF api_key_header = API_KEY
         THEN [raised |-> FALSE, value |-> api_key_header]
         ELSE [raised |-> TRUE, value |-> None]

\* FastAPI's response to the HTTPException of get_api_key.
InvalidApiKeyResponse ==
    Response("json", 403, None,
             [EmptyBody EXCEPT !.keys = {"detail"}, !.error = <<"Invalid API key">>])

-----------------------------------------------------------------------------
\* server.query_processor: the outcomes of each call.

ParseErrors == {Exc("InvalidQuery", <<"Invalid repository URL">>)}

CloneErrors ==
    {Exc("RepoNotFound", <<"git ls-remote failed with status ", "4", "0", "4">>),
     Exc("RepoNotFound", <<"git ls-remote failed with status ", "4", "0", "5">>),
     Exc("CloneTimeout", <<"Operation timed out">>)}

IngestErrors == {Exc("PathNotFound", <<"Subpath does not exist">>)}

\* parse_query(source, max_file_size, from_web, include_patterns, ignore_patterns):
\* a Query with a fresh id, whose url is empty for a local path; InvalidQuery
\* for an unparseable source and always for two non-empty pattern sets.
parse_query(args, id) ==
    {Raises(e) : e \in ParseErrors}
    \cup IF NonEmpty(args.include_patterns) /\ NonEmpty(args.ignore_patterns)
         THEN {}
         ELSE {Outcome(TRUE,
                       Query(IF args.source \in Urls THEN args.source ELSE None,
                             id, args.include_patterns, args.ignore_patterns),
                       NoDigest, NoExc)}

\* Query.extact_clone_config(): a pure projection; the destination is the
\* workspace named by the query's id.
extact_clone_config(q) == CloneConfig(q.url, q.id)

\* clone_repo(config): materializes config.local_path, or raises.
clone_repo(config) ==
    {Raises(e) : e \in CloneErrors} \cup {Outcome(TRUE, NoQuery, NoDigest, NoExc)}

Cloned(ws, config) == [ws EXCEPT ![config.local_path] = config.url]

Digest(q, ws) ==
    [summary |-> <<"summary", ws[q.id]>>,
     tree |-> <<"tree", ws[q.id]>>,
     content |-> <<"content", ws[q.id], q.include_patterns>>]

\* ingest_query(query): the digest of the query's own workspace, or raises.
ingest_query(q, ws) ==
    IF q.id \notin DOMAIN ws \/ ws[q.id] = None
    THEN {Raises(Exc("IngestFailure", <<"Workspace is not readable">>))}
    ELSE {Raises(e) : e \in IngestErrors}
         \cup {Outcome(TRUE, NoQuery, Digest(q, ws), NoExc)}

\* process_query(request, input_text, max_file_size, pattern_type, pattern,
\* is_index): a rendered template, which shows either the digest or the error
\* message of a failed pipeline.
process_query(is_index) ==
    {Response("html", 200, IF is_index THEN "index.jinja" ELSE "git.jinja",
              [EmptyBody EXCEPT !.keys = k]) :
        k \in {{"result", "summary", "tree", "content", "ingest_id"},
               {"error_message"}}}

-----------------------------------------------------------------------------
\* The handlers' own pieces (routers/index.py, routers/dynamic.py).

\* The locals kept in one module-level place instead.
FrameShared(c) == 1

\* A handler's locals live in the frame of its own call.
Frame(c) == c

ApiKeyRequiredResponse ==
    Response("json", 403, None,
             [EmptyBody EXCEPT !.keys = {"error"},
                               !.error = <<"API key required for JSON responses">>])

\* The pattern_type branches with the exclude branch leaving include_patterns set.
PatternArgsBoth(pattern_type, pattern) ==
    IF pattern_type \in {<<"include">>, <<"exclude">>}
    THEN [raised |-> FALSE, include_patterns |-> pattern,
          exclude_patterns |-> IF pattern_type = <<"exclude">> THEN pattern ELSE None,
          exc |-> NoExc]
    ELSE [raised |-> TRUE, include_patterns |-> None,
          exclude_patterns |-> None,
          exc |-> Exc("ValueError", <<"Invalid pattern type: ">> \o pattern_type)]

\* index_post: the pattern_type branches of the try block.
PatternArgs(pattern_type, pattern) ==
    IF pattern_type = <<"include">>
    THEN [raised |-> FALSE, include_patterns |-> pattern,
          exclude_patterns |-> None, exc |-> NoExc]
    ELSE IF pattern_type = <<"exclude">>
         THEN [raised |-> FALSE, include_patterns |-> None,
               exclude_patterns |-> pattern, exc |-> NoExc]
         ELSE [raised |-> TRUE, include_patterns |-> None,
               exclude_patterns |-> None,
               exc |-> Exc("ValueError", <<"Invalid pattern type: ">> \o pattern_type)]

\* get_repository_stats: include_patterns = "README.md" if include_readme else None
StatsPatternArgs(include_readme) ==
    [include_patterns |-> IF include_readme THEN "README.md" ELSE None,
     exclude_patterns |-> None]

\* The url test left out.
UrlMissingNever(q) == FALSE

\* `if not parsed_query.url`
UrlMissing(q) == Falsy(q.url)

UrlRequired == Exc("ValueError", <<"The 'url' parameter is required.">>)

\* The except clause without status_code=400.
ErrorResponse200(exc) ==
    Response("json", 200, None,
             [EmptyBody EXCEPT
                 !.keys = {"status", "error"},
                 !.status = "error",
                 !.error = IF Contains405(exc.msg) THEN REPO_NOT_FOUND ELSE exc.msg])

\* The except clause: str(exc), replaced when it contains "405"; status 400.
ErrorResponse(exc) ==
    Response("json", 400, None,
             [EmptyBody EXCEPT
                 !.keys = {"status", "error"},
                 !.status = "error",
                 !.error = IF Contains405(exc.msg) THEN REPO_NOT_FOUND ELSE exc.msg])

IndexPostSuccess(r, q, d) ==
    Response("json", 200, None,
             [EmptyBody EXCEPT
                 !.keys = {"status", "input_text", "max_file_size", "pattern_type",
                           "pattern", "summary", "tree", "content", "ingest_id"},
                 !.status = "success",
                 !.input_text = r.input_text,
                 !.pattern_type = r.pattern_type,
                 !.pattern = r.pattern,
                 !.summary = d.summary,
                 !.tree = d.tree,
                 !.content = d.content,
                 !.ingest_id = q.id])

\* readme_content is null (here <<>>) unless include_readme.
StatsSuccess(r, q, d) ==
    Response("json", 200, None,
             [EmptyBody EXCEPT
                 !.keys = {"status", "repository", "summary", "tree", "readme_content"},
                 !.status = "success",
                 !.repository = r.url,
                 !.summary = d.summary,
                 !.tree = d.tree,
                 !.readme_content = IF r.include_readme THEN d.content ELSE <<>>])

SuccessResponse(r, q, d) ==
    IF r.handler = "index_post" THEN IndexPostSuccess(r, q, d) ELSE StatsSuccess(r, q, d)

CatchAllData(r) ==
    Response("json", 200, None,
             [EmptyBody EXCEPT !.keys = {"repo_url", "loading", "default_file_size"},
                               !.repo_url = r.full_path])

CatchAllPage(r) ==
    Response("html", 200, "git.jinja",
             [EmptyBody EXCEPT !.keys = {"request", "repo_url", "loading",
                                         "default_file_size"},
                               !.repo_url = r.full_path])

\* process_catch_all: the JSON built when process_query returned an HTMLResponse.
ProcessCatchAllSuccess(r) ==
    Response("json", 200, None,
             [EmptyBody EXCEPT
                 !.keys = {"input_text", "max_file_size", "pattern_type", "pattern",
                           "status"},
                 !.status = "success",
                 !.input_text = r.input_text,
                 !.pattern_type = r.pattern_type,
                 !.pattern = r.pattern])

-----------------------------------------------------------------------------
\* Steps shared by the actions.

Respond(c, resp) ==
    /\ response' = [response EXCEPT ![c] = resp]
    /\ pc' = [pc EXCEPT ![c] = "done"]

\* An exception reaches the except clause of c's handler.
Except(c, stage, exc) ==
    /\ raised' = [raised EXCEPT ![c] = [stage |-> stage, exc |-> exc]]
    /\ Respond(c, ErrorResponse(exc))

Log(c, events) == trace' = [trace EXCEPT ![c] = @ \o events]

\* `await parse_query(...)` is reached with these arguments.
CallParseQuery(c, source, inc, ign) ==
    /\ parse_args' = [parse_args EXCEPT ![c] =
           [source |-> source, include_patterns |-> inc, ignore_patterns |-> ign]]
    /\ Log(c, <<"parse_query">>)
    /\ pc' = [pc EXCEPT ![c] = "await_parse_query"]

-----------------------------------------------------------------------------
Init ==
    /\ API_KEY \in KeyValues
    /\ pc = [c \in Clients |-> "idle"]
    /\ req = [c \in Clients |-> NoRequest]
    /\ api_key = [c \in Clients |-> None]
    /\ parse_args = [c \in Clients |-> NoArgs]
    /\ frame = [c \in Clients |-> NoFrame]
    /\ own_query = [c \in Clients |-> NoQuery]
    /\ trace = [c \in Clients |-> <<>>]
    /\ raised = [c \in Clients |-> NoRaise]
    /\ result = [c \in Clients |-> NoResponse]
    /\ response = [c \in Clients |-> NoResponse]
    /\ nextId = 1
    /\ workspace = [id \in Clients |-> None]

\* A request arrives and its parameters are bound.
Receive(c, requests) ==
    /\ pc[c] = "idle"
    /\ \E r \in requests : req' = [req EXCEPT ![c] = r]
    /\ pc' = [pc EXCEPT ![c] = "dependency"]
    /\ UNCHANGED <<API_KEY, api_key, parse_args, frame, own_query, trace, raised,
                   result, response, nextId, workspace>>

\* Depends(get_api_key) is resolved before the handler is called.
ResolveApiKey(c) ==
    /\ pc[c] = "dependency"
    /\ LET key == get_api_key(req[c].header) IN
           IF key.raised
           THEN /\ Respond(c, InvalidApiKeyResponse)
                /\ UNCHANGED api_key
           ELSE /\ api_key' = [api_key EXCEPT ![c] = key.value]
                /\ pc' = [pc EXCEPT ![c] = "handler"]
                /\ UNCHANGED response
    /\ UNCHANGED <<API_KEY, req, parse_args, frame, own_query, trace, raised,
                   result, nextId, workspace>>

\* index_post, from its first line to its first await or return.
index_post(c) ==
    /\ pc[c] = "handler"
    /\ req[c].handler = "index_post"
    /\ IF req[c].response_type = "json"
       THEN IF Falsy(api_key[c])
            THEN /\ Respond(c, ApiKeyRequiredResponse)
                 /\ UNCHANGED <<parse_args, trace, raised>>
            ELSE LET args == PatternArgs(req[c].pattern_type, req[c].pattern) IN
                     IF args.raised
                     THEN /\ Except(c, "index_post", args.exc)
                          /\ UNCHANGED <<parse_args, trace>>
                     ELSE /\ CallParseQuery(c, req[c].input_text,
                                            args.include_patterns,
                                            args.exclude_patterns)
                          /\ UNCHANGED <<raised, response>>
       ELSE /\ Log(c, <<"process_query">>)
            /\ pc' = [pc EXCEPT ![c] = "await_process_query"]
            /\ UNCHANGED <<parse_args, raised, response>>
    /\ UNCHANGED <<API_KEY, req, api_key, frame, own_query, result, nextId, workspace>>

\* get_repository_stats, from its first line to its first await or return.
get_repository_stats(c) ==
    /\ pc[c] = "handler"
    /\ req[c].handler = "get_repository_stats"
    /\ IF Falsy(api_key[c])
       THEN /\ Respond(c, ApiKeyRequiredResponse)
            /\ UNCHANGED <<parse_args, trace>>
       ELSE LET args == StatsPatternArgs(req[c].include_readme) IN
                /\ CallParseQuery(c, req[c].url, args.include_patterns,
                                  args.exclude_patterns)
                /\ UNCHANGED response
    /\ UNCHANGED <<API_KEY, req, api_key, frame, own_query, raised, result, nextId,
                   workspace>>

\* parse_query returns or raises; the handler runs on to `await clone_repo`.
\* (index_post and get_repository_stats hold the same lines.)
after_parse_query(c) ==
    /\ pc[c] = "await_parse_query"
    /\ \E out \in parse_query(parse_args[c], nextId) :
           IF ~out.ok
           THEN /\ Log(c, <<"parse_query:raise">>)
                /\ Except(c, "parse_query", out.exc)
                /\ UNCHANGED <<frame, own_query, nextId>>
           ELSE /\ own_query' = [own_query EXCEPT ![c] = out.q]
                /\ nextId' = nextId + 1
                /\ IF UrlMissing(out.q)
                   THEN /\ frame' = [frame EXCEPT ![Frame(c)].parsed_query = out.q]
                        /\ Log(c, <<"parse_query:return">>)
                        /\ Except(c, req[c].handler, UrlRequired)
                   ELSE /\ frame' = [frame EXCEPT ![Frame(c)] =
                               [parsed_query |-> out.q,
                                clone_config |-> extact_clone_config(out.q)]]
                        /\ Log(c, <<"parse_query:return", "extact_clone_config",
                                    "extact_clone_config:return", "clone_repo">>)
                        /\ pc' = [pc EXCEPT ![c] = "await_clone_repo"]
                        /\ UNCHANGED <<raised, response>>
    /\ UNCHANGED <<API_KEY, req, api_key, parse_args, result, workspace>>

\* clone_repo returns or raises; ingest_query runs; the response is built.
\* (index_post and get_repository_stats hold the same lines.)
after_clone_repo(c) ==
    /\ pc[c] = "await_clone_repo"
    /\ LET config == frame[Frame(c)].clone_config
           q == frame[Frame(c)].parsed_query
       IN \E out \in clone_repo(config) :
           IF ~out.ok
           THEN /\ Log(c, <<"clone_repo:raise">>)
                /\ Except(c, "clone_repo", out.exc)
                /\ UNCHANGED workspace
           ELSE LET ws == Cloned(workspace, config) IN
                /\ workspace' = ws
                /\ \E got \in ingest_query(q, ws) :
                       IF ~got.ok
                       THEN /\ Log(c, <<"clone_repo:return", "ingest_query",
                                        "ingest_query:raise">>)
                            /\ Except(c, "ingest_query", got.exc)
                       ELSE /\ Log(c, <<"clone_repo:return", "ingest_query",
                                        "ingest_query:return">>)
                            /\ Respond(c, SuccessResponse(req[c], q, got.digest))
                            /\ UNCHANGED raised
    /\ UNCHANGED <<API_KEY, req, api_key, parse_args, frame, own_query, result, nextId>>

index_post_after_parse_query(c) ==
    /\ req[c].handler = "index_post"
    /\ after_parse_query(c)

index_post_after_clone_repo(c) ==
    /\ req[c].handler = "index_post"
    /\ after_clone_repo(c)

get_repository_stats_after_parse_query(c) ==
    /\ req[c].handler = "get_repository_stats"
    /\ after_parse_query(c)

get_repository_stats_after_clone_repo(c) ==
    /\ req[c].handler = "get_repository_stats"
    /\ after_clone_repo(c)

\* index_post with another response_type: `return await process_query(...)`.
index_post_after_process_query(c) ==
    /\ pc[c] = "await_process_query"
    /\ req[c].handler = "index_post"
    /\ \E res \in process_query(TRUE) :
           /\ result' = [result EXCEPT ![c] = res]
           /\ Respond(c, res)
    /\ Log(c, <<"process_query:return">>)
    /\ UNCHANGED <<API_KEY, req, api_key, parse_args, frame, own_query, raised,
                   nextId, workspace>>

\* catch_all has no await.
catch_all(c) ==
    /\ pc[c] = "handler"
    /\ req[c].handler = "catch_all"
    /\ IF req[c].response_type = "json"
       THEN IF Falsy(api_key[c])
            THEN Respond(c, ApiKeyRequiredResponse)
            ELSE Respond(c, CatchAllData(req[c]))
       ELSE Respond(c, CatchAllPage(req[c]))
    /\ UNCHANGED <<API_KEY, req, api_key, parse_args, frame, own_query, trace, raised,
                   result, nextId, workspace>>

\* process_catch_all, from its first line to `await process_query`.
process_catch_all(c) ==
    /\ pc[c] = "handler"
    /\ req[c].handler = "process_catch_all"
    /\ IF req[c].response_type = "json" /\ Falsy(api_key[c])
       THEN /\ Respond(c, ApiKeyRequiredResponse)
            /\ UNCHANGED trace
       ELSE /\ Log(c, <<"process_query">>)
            /\ pc' = [pc EXCEPT ![c] = "await_process_query"]
            /\ UNCHANGED response
    /\ UNCHANGED <<API_KEY, req, api_key, parse_args, frame, own_query, raised,
                   result, nextId, workspace>>

\* process_catch_all after process_query: the isinstance test on its result.
process_catch_all_after_process_query(c) ==
    /\ pc[c] = "await_process_query"
    /\ req[c].handler = "process_catch_all"
    /\ \E res \in process_query(FALSE) :
           /\ result' = [result EXCEPT ![c] = res]
           /\ IF req[c].response_type = "json" /\ res.kind = "html"
              THEN Respond(c, ProcessCatchAllSuccess(req[c]))
              ELSE Respond(c, res)
    /\ Log(c, <<"process_query:return">>)
    /\ UNCHANGED <<API_KEY, req, api_key, parse_args, frame, own_query, raised,
                   nextId, workspace>>

\* One request at a time, over every handler and every input.
Next ==
    \/ Receive(1, AllRequests)
    \/ ResolveApiKey(1)
    \/ index_post(1)
    \/ get_repository_stats(1)
    \/ index_post_after_parse_query(1)
    \/ index_post_after_clone_repo(1)
    \/ get_repository_stats_after_parse_query(1)
    \/ get_repository_stats_after_clone_repo(1)
    \/ index_post_after_process_query(1)
    \/ catch_all(1)
    \/ process_catch_all(1)
    \/ process_catch_all_after_process_query(1)

Spec == Init /\ [][Next]_vars

\* NumClients pipeline requests interleaved at their awaits.
NextConcurrent ==
    \E c \in Clients :
        \/ Receive(c, PipelineRequests)
        \/ ResolveApiKey(c)
        \/ index_post(c)
        \/ get_repository_stats(c)
        \/ index_post_after_parse_query(c)
        \/ index_post_after_clone_repo(c)
        \/ get_repository_stats_after_parse_query(c)
        \/ get_repository_stats_after_clone_repo(c)

SpecConcurrent == Init /\ [][NextConcurrent]_vars

-----------------------------------------------------------------------------
\* Vocabulary of the properties.

Done(c) == pc[c] = "done"

Called(c, event) == \E i \in DOMAIN trace[c] : trace[c][i] = event

Before(c, event, i) == \E j \in 1..(i - 1) : trace[c][j] = event

StageCalls == {"parse_query", "extact_clone_config", "clone_repo", "ingest_query"}

StageRaises == {"parse_query:raise", "clone_repo:raise", "ingest_query:raise"}

Stages == {"parse_query", "clone_repo", "ingest_query"}

\* The request asks for a JSON response.
AsksJson(r) ==
    \/ r.handler = "get_repository_stats"
    \/ /\ r.handler \in {"index_post", "catch_all", "process_catch_all"}
       /\ r.response_type = "json"

AsksHtml(r) ==
    /\ r.handler \in {"index_post", "catch_all", "process_catch_all"}
    /\ r.response_type = "html"

\* get_api_key returned (did not raise) for c's request.
Returned(c) ==
    /\ pc[c] \notin {"idle", "dependency"}
    /\ response[c] # InvalidApiKeyResponse

\* The source string the request hands to parse_query.
SourceOf(r) == IF r.handler = "index_post" THEN r.input_text ELSE r.url

\* The messages the handlers themselves fix.
FixedMessages == {REPO_NOT_FOUND, UrlRequired.msg}

Success(c) ==
    /\ Done(c)
    /\ response[c].kind = "json"
    /\ "status" \in response[c].body.keys
    /\ response[c].body.status = "success"

-----------------------------------------------------------------------------
\* C1: in a request that runs the pipeline the stages run in the order
\* parse_query, extact_clone_config, clone_repo, ingest_query: clone_repo is
\* started only after parse_query returned a query with a non-empty url, and
\* ingest_query only after clone_repo of the same request returned.
PipelineOrder ==
    \A c \in Clients : \A i \in DOMAIN trace[c] :
        /\ trace[c][i] = "extact_clone_config" => Before(c, "parse_query:return", i)
        /\ trace[c][i] = "clone_repo" =>
               /\ Before(c, "parse_query:return", i)
               /\ Before(c, "extact_clone_config:return", i)
               /\ NonEmpty(own_query[c].url)
        /\ trace[c][i] = "ingest_query" => Before(c, "clone_repo:return", i)
        /\ trace[c][i] \in {"parse_query:return", "parse_query:raise"} =>
               Before(c, "parse_query", i)

PipelineOrderWitness ==
    \E c \in Clients : Called(c, "ingest_query:return") /\ Success(c)

\* C2: a request asking for JSON whose X-API-Key header differs from API_KEY
\* never invokes parse_query, clone_repo, ingest_query or process_query, and
\* its response has status 403.
JsonGate ==
    \A c \in Clients :
        (pc[c] # "idle" /\ AsksJson(req[c]) /\ req[c].header # API_KEY) =>
            /\ trace[c] = <<>>
            /\ Done(c) => response[c].status = 403

JsonGateWitness ==
    \E c \in Clients :
        /\ AsksJson(req[c])
        /\ req[c].header # API_KEY
        /\ req[c].header = "secret"
        /\ Done(c)
        /\ response[c] = ApiKeyRequiredResponse

\* C3: a clone that fails because the repository is missing or private is
\* answered with the fixed "Repository not found" message, whatever code the
\* fetch reported.
RepoNotFoundMessage ==
    \A c \in Clients :
        (Done(c) /\ raised[c].stage = "clone_repo"
                 /\ raised[c].exc.kind = "RepoNotFound") =>
            response[c].body.error = REPO_NOT_FOUND

\* C4: every call of parse_query passes at most one non-empty value among
\* include_patterns and ignore_patterns; an index_post JSON request that
\* passed the key test with a pattern_type other than include or exclude is
\* answered with a 400 error and invokes no stage.
PatternsExclusive ==
    \A c \in Clients :
        /\ Called(c, "parse_query") =>
               ~(NonEmpty(parse_args[c].include_patterns)
                 /\ NonEmpty(parse_args[c].ignore_patterns))
        /\ (/\ req[c].handler = "index_post"
            /\ req[c].response_type = "json"
            /\ NonEmpty(api_key[c])
            /\ pc[c] # "handler"
            /\ req[c].pattern_type \notin {<<"include">>, <<"exclude">>}) =>
               /\ Done(c)
               /\ response[c].status = 400
               /\ response[c].body.status = "error"
               /\ trace[c] = <<>>

PatternsExclusiveWitness ==
    \E c \in Clients :
        /\ Called(c, "parse_query")
        /\ req[c].pattern_type = <<"exclude">>
        /\ parse_args[c].ignore_patterns = "*.md"
        /\ parse_args[c].include_patterns = None

\* C5: a request with response_type html is processed and never answered
\* with status 403, whatever its X-API-Key header and whatever API_KEY is.
HtmlNeverForbidden ==
    \A c \in Clients :
        (Done(c) /\ AsksHtml(req[c])) =>
            /\ response[c].status # 403
            /\ response[c].kind = "html"

\* C6: when a pipeline stage raises, the error field of the response is one
\* of the fixed messages and is not the text of the exception.
ErrorsNormalized ==
    \A c \in Clients :
        (Done(c) /\ raised[c].stage \in Stages) =>
            /\ response[c].body.error \in FixedMessages
            /\ response[c].body.error # raised[c].exc.msg

\* C7: within one request every stage is invoked at most once; a stage that
\* raises is the last thing the request invokes, and the request ends with a
\* status-400 JSON response of status "error" without summary, tree, content.
FailFast ==
    \A c \in Clients :
        /\ \A i, j \in DOMAIN trace[c] :
               (trace[c][i] \in StageCalls /\ trace[c][i] = trace[c][j]) => i = j
        /\ \A i \in DOMAIN trace[c] :
               trace[c][i] \in StageRaises =>
                   /\ i = Len(trace[c])
                   /\ Done(c)
                   /\ response[c].kind = "json"
                   /\ response[c].status = 400
                   /\ response[c].body.status = "error"
                   /\ response[c].body.keys = {"status", "error"}
                   /\ response[c].body.summary = <<>>
                   /\ response[c].body.tree = <<>>
                   /\ response[c].body.content = <<>>

FailFastWitness ==
    \E c \in Clients :
        /\ Called(c, "clone_repo:raise")
        /\ raised[c].exc.kind = "CloneTimeout"
        /\ response[c].status = 400

SuccessMeansPipelineSucceeded ==
    \A c \in Clients :
        Success(c) =>
            IF req[c].handler = "process_catch_all"
            THEN "error_message" \notin result[c].body.keys
            ELSE /\ Called(c, "parse_query:return")
                 /\ Called(c, "clone_repo:return")
                 /\ Called(c, "ingest_query:return")
                 /\ raised[c] = NoRaise

\* C10: under any interleaving of pipeline requests, each request clones and
\* ingests the query parsed from its own input into a workspace no other
\* request uses, and its success response carries that query's digest and id.
Isolation ==
    \A c \in Clients :
        own_query[c] # NoQuery =>
            /\ own_query[c].url = SourceOf(req[c])
            /\ \A d \in Clients \ {c} : own_query[d].id # own_query[c].id
            /\ workspace[own_query[c].id] \in {None, SourceOf(req[c])}
            /\ Called(c, "clone_repo") =>
                   frame[c].clone_config = extact_clone_config(own_query[c])
            /\ Success(c) =>
                   /\ workspace[own_query[c].id] = SourceOf(req[c])
                   /\ response[c].body.summary = <<"summary", SourceOf(req[c])>>
                   /\ response[c].body.tree = <<"tree", SourceOf(req[c])>>
                   /\ req[c].handler = "index_post" =>
                          /\ response[c].body.ingest_id = own_query[c].id
                          /\ response[c].body.input_text = req[c].input_text
                          /\ response[c].body.content =
                                 <<"content", SourceOf(req[c]),
                                   own_query[c].include_patterns>>
                   /\ req[c].handler = "get_repository_stats" =>
                          /\ response[c].body.repository = req[c].url
                          /\ response[c].body.readme_content =
                                 <<"content", SourceOf(req[c]), "README.md">>

\* Two requests for different repositories overlap: d parsed first and still
\* awaits its clone when c, which parsed later, has its success response.
IsolationWitness ==
    \E c \in Clients, d \in Clients :
        /\ c # d
        /\ Success(c)
        /\ pc[d] = "await_clone_repo"
        /\ own_query[d].id < own_query[c].id
        /\ SourceOf(req[c]) # SourceOf(req[d])

=============================================================================
